---------------------------- MODULE Spec2Model ----------------------------
(***************************************************************************)
(* The codedeploy_deployment resource of terraform-provider-codedeploy:    *)
(* the four lifecycle handlers (create, read, update, delete) and the      *)
(* three functions that build the CreateDeployment request.                *)
(*                                                                         *)
(* The handlers are modelled from src/unnamed/part_001, the revision of    *)
(* the resource that registers all four handlers and declares              *)
(* auto_rollback_enabled.  src/unnamed/part_000 is an earlier revision of  *)
(* the same file (no update handler, a delete that does nothing, no stop   *)
(* on a failed wait); its request builders are identical.                  *)
(*                                                                         *)
(* The CodeDeploy client and its DeploymentSuccessful waiter are not part  *)
(* of the repository.  Each remote call is an input of the action that     *)
(* makes it: it returns an error or the remote's answer.  The waiter is a  *)
(* poll loop over GetDeployment; when it fails, the output it hands back   *)
(* is either nil or the last record it fetched: the result type, a        *)
(* pointer and an error, allows both and the code tests for it.            *)
(***************************************************************************)
EXTENDS Integers, Sequences, FiniteSets, TLC

(***************************************************************************)
(* Bounds of the model.                                                    *)
(***************************************************************************)
\* Number of deployment ids the remote service can hand out in one behaviour.
MaxDeployments == 2
\* Number of GetDeployment polls one wait may make before its budget is gone.
MaxPolls == 2

(***************************************************************************)
(* Go values.                                                              *)
(***************************************************************************)
\* A nil error.
NilErr == "nil"

\* The errors the remote calls and the waiter produce.
SubmitErr == "CreateDeployment failed"
FetchErr == "GetDeployment failed"
StopErr == "StopDeployment failed"
WaitFailureStateErr == "waiter state transitioned to Failure"
WaitTimeoutErr == "exceeded max wait time for DeploymentSuccessful waiter"
WaitCanceledErr == "request cancelled while waiting"

\* An interface value (any) carries its dynamic type.  The schema declares every
\* leaf of the revision block as schema.TypeString, which d.Get hands over as a
\* Go string.
Str(s) == [type |-> "string", val |-> s]
\* A map lookup of a key that is not set.
NilValue == [type |-> "nil", val |-> ""]

\* x.(T): the assertion succeeds only when the dynamic type of x is exactly T.
TypeAssertOK(x, T) == x.type = T

(***************************************************************************)
(* diag.Diagnostics: a sequence of [severity, summary].                    *)
(***************************************************************************)
\* diag.FromErr: one error-severity diagnostic, or nil for a nil error.
FromErr(e) ==
    IF e = NilErr THEN << >> ELSE << [severity |-> "Error", summary |-> e] >>

\* The literal diag.Diagnostics{diag.Diagnostic{Severity: diag.Warning, ...}}.
WarningMutant(e) == << [severity |-> "Error", summary |-> e] >>
Warning(e) == << [severity |-> "Warning", summary |-> e] >>

HasError(ds) == \E i \in 1..Len(ds) : ds[i].severity = "Error"

(***************************************************************************)
(* The declared configuration of the revision block.                       *)
(***************************************************************************)
RevisionTypes == {"S3", "GitHub", "AppSpecContent"}

ApplicationName == "app"
DeploymentGroupName == "group"

Contents == {"version: 0.0", "{}"}

\* sha256.Sum256 followed by hex.EncodeToString (lowercase hexadecimal), on the
\* contents the model draws.
Sha256Hex(content) ==
    CASE content = "version: 0.0" ->
           "61e3942b5adadc9bea4d6feffc38d6567dff72bd20136aca04f5f20755ede10a"
      [] content = "{}" ->
           "44136fa355b3678a1146ad16f7e8649e94fb4fc21fe77e8310c060f61caaff8a"
      [] content = "" ->
           "e3b0c44298fc1c149afbf4c8996fb92427ae41e4649b934ca495991b7852b855"

\* A sha256 the configuration supplies that is not the digest of any content.
WrongHash == "0000"

S3Blocks ==
    { [bucket |-> Str("bucket"), key |-> Str("key"), bundle_type |-> Str(bt)] :
        bt \in {"zip", "tar"} }

GitHubBlocks ==
    { [repository |-> Str("org/repo"), commit_id |-> Str("c0ffee")] }

\* sha256 is Optional: not set (nil), set to "", or set to some string.
AppSpecBlocks ==
    { [content |-> Str(c), sha256 |-> h] :
        c \in Contents,
        h \in {NilValue, Str(""), Str(WrongHash)} \cup {Str(Sha256Hex(x)) : x \in Contents} }

\* A nested block is a list of at most one element (MaxItems: 1, Optional).
OptionalBlock(S) == {<< >>} \cup {<<b>> : b \in S}

Revisions ==
    [ revision_type   : RevisionTypes,
      s3_location     : OptionalBlock(S3Blocks),
      github_location : OptionalBlock(GitHubBlocks),
      appspec_content : OptionalBlock(AppSpecBlocks) ]

(***************************************************************************)
(* The request builders.  A pointer field is a list: << >> is nil.         *)
(* Each returns [panic, input]: a failed type assertion or an index out of *)
(* range panics, and no request is built.                                  *)
(***************************************************************************)
\* var input codedeploy.CreateDeploymentInput
ZeroInput ==
    [ApplicationName |-> "", DeploymentGroupName |-> "", Revision |-> << >>]

Panicked == [panic |-> TRUE, input |-> ZeroInput]

Built(revisionLocation) ==
    [ panic |-> FALSE,
      input |-> [ ApplicationName     |-> ApplicationName,
                  DeploymentGroupName |-> DeploymentGroupName,
                  Revision            |-> << revisionLocation >> ] ]

prepareDeploymentInputWithS3Location(s3Location) ==
    IF /\ TypeAssertOK(s3Location.bucket, "string")
       /\ TypeAssertOK(s3Location.key, "string")
       /\ TypeAssertOK(s3Location.bundle_type, "BundleType")
    THEN Built([ RevisionType   |-> "S3",
                 S3Location     |-> << [ Bucket     |-> s3Location.bucket.val,
                                         Key        |-> s3Location.key.val,
                                         BundleType |-> s3Location.bundle_type.val ] >>,
                 GitHubLocation |-> << >>,
                 AppSpecContent |-> << >> ])
    ELSE Panicked

prepareDeploymentInputWithGitHubLocation(githubLocation) ==
    IF /\ TypeAssertOK(githubLocation.repository, "string")
       /\ TypeAssertOK(githubLocation.commit_id, "string")
    THEN Built([ RevisionType   |-> "GitHub",
                 S3Location     |-> << >>,
                 GitHubLocation |-> << [ Repository |-> githubLocation.repository.val,
                                         CommitId   |-> githubLocation.commit_id.val ] >>,
                 AppSpecContent |-> << >> ])
    ELSE Panicked

prepareDeploymentInputWithAppSpecContent(appSpecContent) ==
    IF ~TypeAssertOK(appSpecContent.content, "string") THEN Panicked
    ELSE IF appSpecContent.sha256 = NilValue
    THEN Built([ RevisionType   |-> "AppSpecContent",
                 S3Location     |-> << >>,
                 GitHubLocation |-> << >>,
                 AppSpecContent |-> << [ Content |-> appSpecContent.content.val,
                                         Sha256  |-> Sha256Hex(appSpecContent.content.val) ] >> ])
    ELSE IF ~TypeAssertOK(appSpecContent.sha256, "string") THEN Panicked
    ELSE Built([ RevisionType   |-> "AppSpecContent",
                 S3Location     |-> << >>,
                 GitHubLocation |-> << >>,
                 AppSpecContent |-> << [ Content |-> appSpecContent.content.val,
                                         Sha256  |-> appSpecContent.sha256.val ] >> ])

\* The switch on revision_type at the head of resourceDeploymentCreate: block[0]
\* of an empty list is an index out of range.
ResolveRevision(rev) ==
    CASE rev.revision_type = "S3" ->
           IF Len(rev.s3_location) = 0 THEN Panicked
           ELSE prepareDeploymentInputWithS3Location(rev.s3_location[1])
      [] rev.revision_type = "GitHub" ->
           IF Len(rev.github_location) = 0 THEN Panicked
           ELSE prepareDeploymentInputWithGitHubLocation(rev.github_location[1])
      [] rev.revision_type = "AppSpecContent" ->
           IF Len(rev.appspec_content) = 0 THEN Panicked
           ELSE prepareDeploymentInputWithAppSpecContent(rev.appspec_content[1])
      [] OTHER -> [panic |-> FALSE, input |-> ZeroInput]

(***************************************************************************)
(* The remote service.                                                     *)
(***************************************************************************)
DeploymentId(i) == "d-" \o ToString(i)
Ids == {DeploymentId(i) : i \in 1..MaxDeployments}

\* codedeployTypes.DeploymentStatus; Baking stands for the values the resource
\* gives no special treatment ("Queued", "Baking", "Ready", values yet to come).
Statuses == {"Created", "InProgress", "Succeeded", "Failed", "Stopped", "Baking"}
NoDeployment == "none"
\* The statuses a deployment ends in.
Terminal == {"Succeeded", "Failed", "Stopped"}
\* An id is handed out once.  When the host holds a deployment's id no longer
\* and no handler has it in a local, no call can name that deployment again, and
\* its status is no longer told apart.
Unfollowed == "unfollowed"
Forget(r) == [id \in DOMAIN r |-> IF r[id] = NoDeployment THEN NoDeployment ELSE Unfollowed]
\* From r1 to r2 a deployment that had ended changed status.
Reopens(r1, r2) == \E id \in DOMAIN r1 : r1[id] \in Terminal /\ r2[id] # r1[id]

\* A nil *GetDeploymentOutput, and one that carries DeploymentInfo.
NilOutput == [present |-> FALSE, id |-> "", status |-> ""]
Record(id, status) == [present |-> TRUE, id |-> id, status |-> status]

\* What svc.GetDeployment returns: (nil, err) or (record, nil).
Failure(e) == [err |-> e, rec |-> NilOutput]
Success(rec) == [err |-> NilErr, rec |-> rec]
NoResponse == [err |-> NilErr, rec |-> NilOutput]

\* The calls made on the client, in order, by the handler that runs.
SubmitCall == [op |-> "Submit", id |-> "", rollback |-> FALSE]
FetchCall(id) == [op |-> "FetchStatus", id |-> id, rollback |-> FALSE]
StopCall(id, rollback) == [op |-> "Stop", id |-> id, rollback |-> rollback]

(***************************************************************************)
(* State.                                                                  *)
(***************************************************************************)
VARIABLES
    d,           \* schema.ResourceData: id, deployment_status, auto_rollback_enabled
    remote,      \* the remote service: the status of each deployment id
    op,          \* the handler that runs or ran last
    pc,          \* where that handler stands
    exit,        \* "running", "returned" or "panic"
    revision,    \* Create: the declared revision block
    input,       \* Create: the CreateDeploymentInput
    deployment,  \* Create: the DeploymentId CreateDeployment returned
    output,      \* Create: the waiter's output (its loop variable while it polls)
    err,         \* Create: the error of CreateDeployment, then of the wait
    stopErr,     \* the error of StopDeployment
    got,         \* Read, Delete: what svc.GetDeployment returned
    setOK,       \* Read: whether d.Set returned nil
    diags,       \* the diagnostics the handler returned
    calls,       \* the calls the handler made on the client
    polls,       \* Create: the polls the wait has made
    timeout,     \* Create: d.Timeout(schema.TimeoutCreate), in seconds, once read
    clock,       \* Create: seconds since waiter.WaitForOutput was called, while it runs
    reopened,    \* history: a deployment that had ended changed status afterwards
    reads        \* history: Reads in a row that got the same answers (0, 1, 2 or more)

vars == << d, remote, op, pc, exit, revision, input, deployment, output, err,
           stopErr, got, setOK, diags, calls, polls, timeout, clock, reopened,
           reads >>

NoRevision ==
    [ revision_type |-> "", s3_location |-> << >>, github_location |-> << >>,
      appspec_content |-> << >> ]

\* A resource the host holds no state for.
NewResource(rollback) ==
    [id |-> "", deployment_status |-> "", auto_rollback_enabled |-> rollback]

Init ==
    /\ d = NewResource(TRUE)
    /\ remote = [id \in Ids |-> NoDeployment]
    /\ op = "None"
    /\ pc = "idle"
    /\ exit = "returned"
    /\ revision = NoRevision
    /\ input = ZeroInput
    /\ deployment = ""
    /\ output = NilOutput
    /\ err = NilErr
    /\ stopErr = NilErr
    /\ got = NoResponse
    /\ setOK = TRUE
    /\ diags = << >>
    /\ calls = << >>
    /\ polls = 0
    /\ timeout = 0
    /\ clock = 0
    /\ reopened = FALSE
    /\ reads = 0

(***************************************************************************)
(* resourceDeploymentCreate.                                               *)
(***************************************************************************)
\* The revisions Create is run on: the block of the chosen type is the one
\* declared, and inline content comes without a sha256 or with an empty one.
CreateRevisions ==
    { r \in Revisions :
        /\ Len(r.s3_location) = (IF r.revision_type = "S3" THEN 1 ELSE 0)
        /\ Len(r.github_location) = (IF r.revision_type = "GitHub" THEN 1 ELSE 0)
        /\ Len(r.appspec_content) = (IF r.revision_type = "AppSpecContent" THEN 1 ELSE 0)
        /\ r.revision_type = "S3" => r.s3_location[1].bundle_type.val = "zip"
        /\ r.revision_type = "AppSpecContent" =>
              /\ r.appspec_content[1].content.val = "{}"
              /\ r.appspec_content[1].sha256 \in {NilValue, Str("")} }

\* delay := 15 * time.Second, in seconds.
delay == 15

\* The values of d.Timeout(schema.TimeoutCreate) Create is run with, in seconds:
\* below delay, equal to it, and above it.
Timeouts == {10, 15, 30}

\* The maxWaitDur handed to WaitForOutput: d.Timeout(schema.TimeoutCreate)-delay.
BudgetMutant(t) == t + delay
Budget(t) == t - delay

\* The host calls Create on a resource it holds no state for.
CanCreate == pc = "idle" /\ d.id = ""

\* A type assertion or an index fails while the request is built: the handler
\* panics before any remote call.
CreatePanic ==
    /\ CanCreate
    /\ \E rev \in CreateRevisions, rollback \in BOOLEAN :
          /\ ResolveRevision(rev).panic
          /\ revision' = rev
          /\ input' = ZeroInput
          /\ d' = NewResource(rollback)
    /\ op' = "Create"
    /\ pc' = "idle"
    /\ exit' = "panic"
    /\ deployment' = ""
    /\ output' = NilOutput
    /\ err' = NilErr
    /\ stopErr' = NilErr
    /\ got' = NoResponse
    /\ setOK' = TRUE
    /\ diags' = << >>
    /\ calls' = << >>
    /\ polls' = 0
    /\ timeout' = 0
    /\ clock' = 0
    /\ reopened' = FALSE
    /\ reads' = 0
    /\ remote' = Forget(remote)

\* if err != nil { return diag.FromErr(err) } after svc.CreateDeployment.
SubmitErrorReturnMutant(e) == [pc |-> "idle", exit |-> "returned", diags |-> << >>]
SubmitErrorReturn(e) == [pc |-> "idle", exit |-> "returned", diags |-> FromErr(e)]

\* svc.CreateDeployment returns an error.
CreateSubmitFails ==
    /\ CanCreate
    /\ \E rev \in CreateRevisions, rollback \in BOOLEAN :
          /\ ~ResolveRevision(rev).panic
          /\ revision' = rev
          /\ input' = ResolveRevision(rev).input
          /\ d' = NewResource(rollback)
    /\ op' = "Create"
    /\ calls' = << SubmitCall >>
    /\ err' = SubmitErr
    /\ pc' = SubmitErrorReturn(SubmitErr).pc
    /\ exit' = SubmitErrorReturn(SubmitErr).exit
    /\ diags' = SubmitErrorReturn(SubmitErr).diags
    /\ deployment' = ""
    /\ output' = NilOutput
    /\ stopErr' = NilErr
    /\ got' = NoResponse
    /\ setOK' = TRUE
    /\ polls' = 0
    /\ timeout' = 0
    /\ clock' = 0
    /\ reopened' = FALSE
    /\ reads' = 0
    /\ remote' = Forget(remote)

\* svc.CreateDeployment succeeds: the remote creates a deployment and returns its
\* id; the handler goes on to wait for it.
CreateSubmit ==
    /\ CanCreate
    /\ \E rev \in CreateRevisions, rollback \in BOOLEAN :
          /\ ~ResolveRevision(rev).panic
          /\ revision' = rev
          /\ input' = ResolveRevision(rev).input
          /\ d' = NewResource(rollback)
    /\ \E id \in Ids :
          /\ remote[id] = NoDeployment
          /\ remote' = [Forget(remote) EXCEPT ![id] = "Created"]
          /\ deployment' = id
    /\ op' = "Create"
    /\ calls' = << SubmitCall >>
    /\ err' = NilErr
    /\ pc' = "wait"
    /\ exit' = "running"
    /\ diags' = << >>
    /\ output' = NilOutput
    /\ stopErr' = NilErr
    /\ got' = NoResponse
    /\ setOK' = TRUE
    /\ polls' = 0
    /\ timeout' \in Timeouts
    /\ clock' = 0
    /\ reopened' = FALSE
    /\ reads' = 0

(***************************************************************************)
(* waiter.WaitForOutput: a poll loop over GetDeployment for the id of      *)
(* CreateDeployment.  While it polls, output holds the last record it      *)
(* fetched.                                                                *)
(***************************************************************************)
\* The DeploymentSuccessful waiter: Succeeded ends the wait, Failed and Stopped
\* fail it, any other status is polled again.
WaiterState(status) ==
    CASE status = "Succeeded" -> "success"
      [] status \in {"Failed", "Stopped"} -> "failure"
      [] OTHER -> "retry"

\* The output a failed wait hands back: nil, or the last record fetched.
FailedWaitOutputs(last) == {NilOutput, last}

\* o.MaxDelay = delay: the waiter sleeps at most delay between two polls.
Sleeps == {s \in {5, 10, 15, 20} : s <= delay}

\* The time a GetDeployment call of the wait takes, in seconds.
PollTimes == {0, 5}

\* The waiter polls while its budget lasts: not at all on a budget that is not
\* positive.
CanPoll == pc = "wait" /\ polls < MaxPolls /\ clock < Budget(timeout)

WaitVars == << d, remote, op, exit, revision, input, deployment, stopErr, got,
               setOK, diags, timeout, reopened, reads >>

\* A poll whose GetDeployment fails fails the wait.
WaitPollFails ==
    /\ CanPoll
    /\ calls' = Append(calls, FetchCall(deployment))
    /\ polls' = polls + 1
    /\ err' = FetchErr
    /\ output' \in FailedWaitOutputs(output)
    /\ pc' = "waited"
    /\ clock' = 0
    /\ UNCHANGED WaitVars

\* A poll that finds a status the waiter polls again on.
WaitPollRetry ==
    /\ CanPoll
    /\ WaiterState(remote[deployment]) = "retry"
    /\ calls' = Append(calls, FetchCall(deployment))
    /\ polls' = polls + 1
    /\ output' = Record(deployment, remote[deployment])
    /\ \E p \in PollTimes, s \in Sleeps : clock' = clock + p + s
    /\ UNCHANGED << pc, err >>
    /\ UNCHANGED WaitVars

\* A poll that finds Succeeded: the wait returns the record and no error.
WaitPollSucceeded ==
    /\ CanPoll
    /\ WaiterState(remote[deployment]) = "success"
    /\ calls' = Append(calls, FetchCall(deployment))
    /\ polls' = polls + 1
    /\ output' = Record(deployment, remote[deployment])
    /\ err' = NilErr
    /\ pc' = "waited"
    /\ clock' = 0
    /\ UNCHANGED WaitVars

\* A poll that finds Failed or Stopped: the wait fails.
WaitPollFailureState ==
    /\ CanPoll
    /\ WaiterState(remote[deployment]) = "failure"
    /\ calls' = Append(calls, FetchCall(deployment))
    /\ polls' = polls + 1
    /\ err' = WaitFailureStateErr
    /\ output' \in FailedWaitOutputs(Record(deployment, remote[deployment]))
    /\ pc' = "waited"
    /\ clock' = 0
    /\ UNCHANGED WaitVars

\* The budget is used up, or ctx is cancelled, before the first poll or between
\* two.  Past MaxPolls polls the rest of the wait is not followed: it ends here.
WaitDeadline ==
    /\ pc = "wait"
    /\ \/ err' = WaitCanceledErr
       \/ (clock >= Budget(timeout) \/ polls = MaxPolls) /\ err' = WaitTimeoutErr
    /\ output' \in FailedWaitOutputs(output)
    /\ pc' = "waited"
    /\ clock' = 0
    /\ UNCHANGED << calls, polls >>
    /\ UNCHANGED WaitVars

(***************************************************************************)
(* resourceDeploymentRead, on the resource data dd, given what             *)
(* svc.GetDeployment returned and whether d.Set succeeds.                  *)
(***************************************************************************)
\* The responses GetDeployment can give for id: an error, or the record.
FetchResponses(id) == {Failure(FetchErr), Success(Record(id, remote[id]))}

\* d.Set is reached only when GetDeployment succeeded.
SetOutcomes(r) == IF r.err = NilErr THEN BOOLEAN ELSE {TRUE}

\* A Read that clears deployment_status when GetDeployment fails.
resourceDeploymentReadClears(dd, r, ok) ==
    IF r.err # NilErr
    THEN [d |-> [dd EXCEPT !.deployment_status = ""], diags |-> FromErr(r.err)]
    ELSE IF ~ok
    THEN [d |-> dd, diags |-> FromErr(r.err)]
    ELSE [ d |-> [dd EXCEPT !.deployment_status = r.rec.status],
           diags |-> << >> ]

\* A Read that knows five statuses and fails on any other.
resourceDeploymentReadClosedEnum(dd, r, ok) ==
    IF r.err # NilErr
    THEN [d |-> dd, diags |-> FromErr(r.err)]
    ELSE IF r.rec.status \notin {"Created", "InProgress", "Succeeded", "Failed", "Stopped"}
    THEN [d |-> dd, diags |-> FromErr("unknown status")]
    ELSE IF ~ok
    THEN [d |-> dd, diags |-> FromErr(r.err)]
    ELSE [ d |-> [dd EXCEPT !.deployment_status = r.rec.status],
           diags |-> << >> ]

\* A Read that takes the resource out of the state when GetDeployment fails.
resourceDeploymentReadDropsId(dd, r, ok) ==
    IF r.err # NilErr
    THEN [d |-> [dd EXCEPT !.id = ""], diags |-> FromErr(r.err)]
    ELSE IF ~ok
    THEN [d |-> dd, diags |-> FromErr(r.err)]
    ELSE [ d |-> [dd EXCEPT !.deployment_status = r.rec.status],
           diags |-> << >> ]

resourceDeploymentReadMutant(dd, r, ok) ==
    IF r.err # NilErr
    THEN [d |-> dd, diags |-> FromErr(r.err)]
    ELSE IF ~ok
    THEN [d |-> dd, diags |-> FromErr(r.err)]
    ELSE [ d |-> [dd EXCEPT !.deployment_status =
                      IF dd.deployment_status = r.rec.status THEN "" ELSE r.rec.status],
           diags |-> << >> ]

resourceDeploymentRead(dd, r, ok) ==
    IF r.err # NilErr
    THEN [d |-> dd, diags |-> FromErr(r.err)]
    ELSE IF ~ok
    THEN [d |-> dd, diags |-> FromErr(r.err)]
    ELSE [ d |-> [dd EXCEPT !.deployment_status = r.rec.status],
           diags |-> << >> ]

(***************************************************************************)
(* resourceDeploymentCreate, after the wait.                               *)
(***************************************************************************)
\* if output == nil, inside if err != nil.
StopAfterFailedWait(out) == out = NilOutput

\* if err != nil { diags = append(diags, diag.FromErr(err)...) } after Stop.
AppendStopDiagsMutant(ds, e) == IF e # NilErr THEN FromErr(e) ELSE ds
AppendStopDiags(ds, e) == IF e # NilErr THEN ds \o FromErr(e) ELSE ds

\* StopDeployment returns an error or stops the deployment.
StopOutcomes == {NilErr, StopErr}
Stopped(id, e) == IF e = NilErr THEN [remote EXCEPT ![id] = "Stopped"] ELSE remote

AfterWaitVars == << op, revision, input, deployment, output, err, polls, timeout,
                   clock, reads >>

\* A Create that calls StopDeployment once more when the first call failed.
CreateWaitFailedStopRetries ==
    /\ pc = "waited"
    /\ err # NilErr
    /\ StopAfterFailedWait(output)
    /\ \E e \in StopOutcomes :
          /\ stopErr' = e
          /\ remote' = Stopped(deployment, e)
          /\ reopened' = (reopened \/ Reopens(remote, Stopped(deployment, e)))
          /\ diags' = AppendStopDiags(FromErr(err), e)
          /\ calls' = (IF e = NilErr
                       THEN Append(calls, StopCall(deployment, d.auto_rollback_enabled))
                       ELSE calls \o << StopCall(deployment, d.auto_rollback_enabled),
                                        StopCall(deployment, d.auto_rollback_enabled) >>)
    /\ pc' = "idle"
    /\ exit' = "returned"
    /\ UNCHANGED << d, got, setOK >>
    /\ UNCHANGED AfterWaitVars

\* The wait failed and its output is nil: stop the deployment, return the wait's
\* error and, after it, the error of the stop.
CreateWaitFailedStop ==
    /\ pc = "waited"
    /\ err # NilErr
    /\ StopAfterFailedWait(output)
    /\ \E e \in StopOutcomes :
          /\ stopErr' = e
          /\ remote' = Stopped(deployment, e)
          /\ reopened' = (reopened \/ Reopens(remote, Stopped(deployment, e)))
          /\ diags' = AppendStopDiags(FromErr(err), e)
    /\ calls' = Append(calls, StopCall(deployment, d.auto_rollback_enabled))
    /\ pc' = "idle"
    /\ exit' = "returned"
    /\ UNCHANGED << d, got, setOK >>
    /\ UNCHANGED AfterWaitVars

\* A Create that calls d.SetId before it looks at the wait's error.
CreateWaitFailedNoStopSetsId ==
    /\ pc = "waited"
    /\ err # NilErr
    /\ ~StopAfterFailedWait(output)
    /\ d' = [d EXCEPT !.id = deployment]
    /\ diags' = FromErr(err)
    /\ pc' = "idle"
    /\ exit' = "returned"
    /\ UNCHANGED << remote, reopened, stopErr, got, setOK, calls >>
    /\ UNCHANGED AfterWaitVars

\* The wait failed and handed back an output: return the wait's error.
CreateWaitFailedNoStop ==
    /\ pc = "waited"
    /\ err # NilErr
    /\ ~StopAfterFailedWait(output)
    /\ diags' = FromErr(err)
    /\ pc' = "idle"
    /\ exit' = "returned"
    /\ UNCHANGED << d, remote, reopened, stopErr, got, setOK, calls >>
    /\ UNCHANGED AfterWaitVars

\* The wait succeeded: d.SetId, then return resourceDeploymentRead(ctx, d, m).
CreateFinish ==
    /\ pc = "waited"
    /\ err = NilErr
    /\ \E r \in FetchResponses(deployment) : \E ok \in SetOutcomes(r) :
          LET read == resourceDeploymentRead([d EXCEPT !.id = deployment], r, ok)
          IN  /\ got' = r
              /\ setOK' = ok
              /\ d' = read.d
              /\ diags' = read.diags
    /\ calls' = Append(calls, FetchCall(deployment))
    /\ pc' = "idle"
    /\ exit' = "returned"
    /\ UNCHANGED << remote, reopened, stopErr >>
    /\ UNCHANGED AfterWaitVars

(***************************************************************************)
(* The handlers the host calls on a resource it holds state for.  Once     *)
(* Delete has returned without an error the host drops the resource, so no *)
(* other handler runs on it.                                               *)
(***************************************************************************)
Deleted == op = "Delete" /\ exit = "returned" /\ ~HasError(diags)

CanCall == pc = "idle" /\ d.id # "" /\ ~Deleted

CreateLocals == << revision, input, deployment, output, err, polls, timeout, clock >>

ResetCreateLocals ==
    /\ revision' = NoRevision
    /\ input' = ZeroInput
    /\ deployment' = ""
    /\ output' = NilOutput
    /\ err' = NilErr
    /\ polls' = 0
    /\ timeout' = 0
    /\ clock' = 0

Read ==
    /\ CanCall
    /\ \E r \in FetchResponses(d.id) : \E ok \in SetOutcomes(r) :
          LET read == resourceDeploymentRead(d, r, ok)
          IN  /\ got' = r
              /\ setOK' = ok
              /\ d' = read.d
              /\ diags' = read.diags
              /\ reads' = (IF op = "Read" /\ got = r /\ setOK = ok THEN 2 ELSE 1)
    /\ calls' = << FetchCall(d.id) >>
    /\ op' = "Read"
    /\ pc' = "idle"
    /\ exit' = "returned"
    /\ stopErr' = NilErr
    /\ ResetCreateLocals
    /\ UNCHANGED << remote, reopened >>

\* resourceDeploymentUpdate returns nil and does nothing else; the host has put
\* the planned value of auto_rollback_enabled, the one field that is not
\* ForceNew, in d.
\* An Update that ends with resourceDeploymentRead, as Create does.
resourceDeploymentUpdateReads(dd) ==
    [ d |-> [dd EXCEPT !.deployment_status = remote[dd.id]],
      diags |-> << >>,
      calls |-> << FetchCall(dd.id) >> ]

resourceDeploymentUpdate(dd) == [d |-> dd, diags |-> << >>, calls |-> << >>]

Update ==
    /\ CanCall
    /\ \E rollback \in BOOLEAN :
          LET update == resourceDeploymentUpdate([d EXCEPT !.auto_rollback_enabled = rollback])
          IN  /\ d' = update.d
              /\ calls' = update.calls
              /\ diags' = update.diags
    /\ op' = "Update"
    /\ pc' = "idle"
    /\ exit' = "returned"
    /\ stopErr' = NilErr
    /\ got' = NoResponse
    /\ setOK' = TRUE
    /\ reads' = 0
    /\ ResetCreateLocals
    /\ UNCHANGED << remote, reopened >>

(***************************************************************************)
(* resourceDeploymentDelete.                                               *)
(***************************************************************************)
\* status != Succeeded && status != Failed && status != Stopped
\* A Delete that leaves Succeeded out of the statuses it does not stop.
DeleteMustStopUnlessFailed(status) == status \notin {"Failed", "Stopped"}
DeleteMustStopMutant(status) == status # "Succeeded"
DeleteMustStop(status) == status \notin {"Succeeded", "Failed", "Stopped"}

DeleteStartVars == << d, remote, reopened >>

\* svc.GetDeployment fails: return one warning.
DeleteFetchFails ==
    /\ CanCall
    /\ got' = Failure(FetchErr)
    /\ calls' = << FetchCall(d.id) >>
    /\ diags' = Warning(FetchErr)
    /\ op' = "Delete"
    /\ pc' = "idle"
    /\ exit' = "returned"
    /\ stopErr' = NilErr
    /\ setOK' = TRUE
    /\ reads' = 0
    /\ ResetCreateLocals
    /\ UNCHANGED DeleteStartVars

\* The deployment is fetched and has ended: return nil.
DeleteNothingToStop ==
    /\ CanCall
    /\ ~DeleteMustStop(remote[d.id])
    /\ got' = Success(Record(d.id, remote[d.id]))
    /\ calls' = << FetchCall(d.id) >>
    /\ diags' = << >>
    /\ op' = "Delete"
    /\ pc' = "idle"
    /\ exit' = "returned"
    /\ stopErr' = NilErr
    /\ setOK' = TRUE
    /\ reads' = 0
    /\ ResetCreateLocals
    /\ UNCHANGED DeleteStartVars

\* The deployment is fetched and has not ended: go on to stop it.
DeleteFetchInFlight ==
    /\ CanCall
    /\ DeleteMustStop(remote[d.id])
    /\ got' = Success(Record(d.id, remote[d.id]))
    /\ calls' = << FetchCall(d.id) >>
    /\ diags' = << >>
    /\ op' = "Delete"
    /\ pc' = "stop"
    /\ exit' = "running"
    /\ stopErr' = NilErr
    /\ setOK' = TRUE
    /\ reads' = 0
    /\ ResetCreateLocals
    /\ UNCHANGED DeleteStartVars

\* svc.StopDeployment with the id of the fetched deployment: an error is returned
\* as one warning.
DeleteStop ==
    /\ pc = "stop"
    /\ \E e \in StopOutcomes :
          /\ stopErr' = e
          /\ remote' = Stopped(got.rec.id, e)
          /\ reopened' = (reopened \/ Reopens(remote, Stopped(got.rec.id, e)))
          /\ diags' = (IF e # NilErr THEN Warning(e) ELSE << >>)
    /\ calls' = Append(calls, StopCall(got.rec.id, d.auto_rollback_enabled))
    /\ pc' = "idle"
    /\ exit' = "returned"
    /\ UNCHANGED << d, op, got, setOK, reads >>
    /\ UNCHANGED CreateLocals

\* schema.Resource.Apply after DeleteContext returned no error: the resource is
\* gone from the host's state, and with it what the handler left behind.
HostForgets ==
    /\ pc = "idle"
    /\ Deleted
    /\ d' = NewResource(d.auto_rollback_enabled)
    /\ op' = "None"
    /\ got' = NoResponse
    /\ stopErr' = NilErr
    /\ diags' = << >>
    /\ calls' = << >>
    /\ remote' = Forget(remote)
    /\ reopened' = FALSE
    /\ UNCHANGED << pc, exit, setOK, reads >>
    /\ UNCHANGED CreateLocals

(***************************************************************************)
(* The remote service moves a deployment from one status to another: the    *)
(* one Create waits for, or the one whose id the host holds.               *)
(***************************************************************************)
Followed == {d.id, deployment} \ {""}

RemoteStep ==
    /\ \E id \in Followed :
          /\ remote[id] # NoDeployment
          /\ \E s \in Statuses \ {remote[id]} : remote' = [remote EXCEPT ![id] = s]
          /\ reopened' = (reopened \/ remote[id] \in Terminal)
    /\ UNCHANGED << d, op, pc, exit, revision, input, deployment, output, err,
                    stopErr, got, setOK, diags, calls, polls, timeout, clock, reads >>

Next ==
    \/ CreatePanic
    \/ CreateSubmitFails
    \/ CreateSubmit
    \/ WaitPollFails
    \/ WaitPollRetry
    \/ WaitPollSucceeded
    \/ WaitPollFailureState
    \/ WaitDeadline
    \/ CreateWaitFailedStop
    \/ CreateWaitFailedNoStop
    \/ CreateFinish
    \/ Read
    \/ Update
    \/ DeleteFetchFails
    \/ DeleteNothingToStop
    \/ DeleteFetchInFlight
    \/ DeleteStop
    \/ HostForgets
    \/ RemoteStep

Spec == Init /\ [][Next]_vars

(***************************************************************************)
(* The handler runs on: once svc.CreateDeployment has returned, the wait,   *)
(* and what follows it, take their next step, each remote call returning.  *)
(***************************************************************************)
CreateStep ==
    \/ WaitPollFails
    \/ WaitPollRetry
    \/ WaitPollSucceeded
    \/ WaitPollFailureState
    \/ WaitDeadline
    \/ CreateWaitFailedStop
    \/ CreateWaitFailedNoStop
    \/ CreateFinish

SpecFair == Spec /\ WF_vars(CreateStep)

(***************************************************************************)
(* The provider process is killed while Create waits.  The handler and its *)
(* locals are gone, the state holds what d.SetId and d.Set had written, and *)
(* the remote deployment goes on; deployment is kept as history, the id    *)
(* the lost svc.CreateDeployment call had returned.                        *)
(***************************************************************************)
ProcessKilled ==
    /\ pc = "wait"
    /\ pc' = "idle"
    /\ exit' = "killed"
    /\ clock' = 0
    /\ UNCHANGED << d, remote, op, revision, input, deployment, output, err, stopErr,
                    got, setOK, diags, calls, polls, timeout, reopened, reads >>

NextCrash ==
    \/ Next
    \/ ProcessKilled

SpecCrash == Init /\ [][NextCrash]_vars

(***************************************************************************)
(* The request builders on their own: the head of resourceDeploymentCreate *)
(* run on every declared revision block, up to the built request.          *)
(***************************************************************************)
InitResolver ==
    /\ revision \in Revisions
    /\ d = NewResource(TRUE)
    /\ remote = [id \in Ids |-> NoDeployment]
    /\ op = "None"
    /\ pc = "idle"
    /\ exit = "returned"
    /\ input = ZeroInput
    /\ deployment = ""
    /\ output = NilOutput
    /\ err = NilErr
    /\ stopErr = NilErr
    /\ got = NoResponse
    /\ setOK = TRUE
    /\ diags = << >>
    /\ calls = << >>
    /\ polls = 0
    /\ timeout = 0
    /\ clock = 0
    /\ reopened = FALSE
    /\ reads = 0

Resolve ==
    /\ op = "None"
    /\ op' = "Resolve"
    /\ input' = ResolveRevision(revision).input
    /\ exit' = (IF ResolveRevision(revision).panic THEN "panic" ELSE "returned")
    /\ UNCHANGED << d, remote, pc, revision, deployment, output, err, stopErr,
                    got, setOK, diags, calls, polls, timeout, clock, reopened,
                    reads >>

NextResolver == Resolve

SpecResolver == InitResolver /\ [][NextResolver]_vars

(***************************************************************************)
(* Properties.                                                             *)
(***************************************************************************)
Returned(handler) == op = handler /\ pc = "idle" /\ exit = "returned"

StopCalls == {i \in 1..Len(calls) : calls[i].op = "Stop"}
FetchCalls == {i \in 1..Len(calls) : calls[i].op = "FetchStatus"}

\* Create submitted a deployment and its wait failed.
CreateWaitFailed == Returned("Create") /\ deployment # "" /\ err # NilErr

\* C1: when Submit succeeded and the wait ran out of budget or was cancelled
\* and handed back a non-absent output, Create has called Stop with the id
\* Submit returned and the configured auto_rollback_enabled, and reports failure.
C1_StopAfterObservedWaitFailure ==
    (CreateWaitFailed /\ err \in {WaitTimeoutErr, WaitCanceledErr} /\ output # NilOutput) =>
        /\ \E i \in StopCalls :
              calls[i] = StopCall(deployment, d.auto_rollback_enabled)
        /\ HasError(diags)

\* No poll of the wait returned a record: the wait ended before its first poll,
\* or its first poll failed.
NothingObserved == polls = 0 \/ (polls = 1 /\ err = FetchErr)

\* C2: when Submit succeeded and the wait failed with no deployment info ever
\* observed (its output is absent), Create has made no Stop call and reports
\* failure.
C2_NoStopWithoutObservedState ==
    (CreateWaitFailed /\ output = NilOutput /\ NothingObserved) =>
        /\ StopCalls = {}
        /\ HasError(diags)

\* C3: when Create returns, either it reports success with a persisted identity
\* and a populated deployment_status, or it reports failure and no identity is
\* persisted.  (Stated for the runs in which the state write succeeds.)
C3_CreateAllOrNothing ==
    (Returned("Create") /\ setOK) =>
        \/ ~HasError(diags) /\ d.id # "" /\ d.deployment_status # ""
        \/ HasError(diags) /\ d.id = ""

\* C4: when Submit returns an error, Create has returned failure at once: no
\* identity is persisted and Submit is the only call it made.
C4_SubmitErrorFailsImmediately ==
    (op = "Create" /\ err = SubmitErr) =>
        /\ pc = "idle" /\ exit = "returned"
        /\ HasError(diags)
        /\ d.id = ""
        /\ calls = << SubmitCall >>
        /\ StopCalls = {} /\ FetchCalls = {}

C4_Witness ==
    /\ Returned("Create") /\ err = SubmitErr
    /\ diags = << [severity |-> "Error", summary |-> SubmitErr] >>
    /\ input.Revision # << >>

\* C5: when Delete returns, it has called Stop if and only if its FetchStatus
\* succeeded with a status other than Succeeded, Failed, Stopped; it called Stop
\* at most once, with the id of the fetched deployment (the stored identity) and
\* the configured auto_rollback_enabled.
C5_DeleteStopsIffInFlight ==
    Returned("Delete") =>
        /\ calls[1] = FetchCall(d.id)
        /\ FetchCalls = {1}
        /\ Cardinality(StopCalls) <= 1
        /\ (StopCalls # {}) <=>
              (got.err = NilErr /\ got.rec.status \notin {"Succeeded", "Failed", "Stopped"})
        /\ \A i \in StopCalls :
              /\ got.rec.id = d.id
              /\ calls[i] = StopCall(got.rec.id, d.auto_rollback_enabled)

C5_Witness ==
    /\ Returned("Delete")
    /\ got.err = NilErr /\ got.rec.status = "InProgress"
    /\ calls = << FetchCall(d.id), StopCall(d.id, d.auto_rollback_enabled) >>

\* C6: Delete never returns an error-severity diagnostic; a FetchStatus error or
\* a Stop error comes back as exactly one warning carrying that error, and with
\* no remote error Delete returns no diagnostics.
C6_DeleteNeverFails ==
    Returned("Delete") =>
        /\ ~HasError(diags)
        /\ got.err # NilErr =>
              diags = << [severity |-> "Warning", summary |-> got.err] >>
        /\ (got.err = NilErr /\ stopErr # NilErr) =>
              diags = << [severity |-> "Warning", summary |-> stopErr] >>
        /\ (got.err = NilErr /\ stopErr = NilErr) => diags = << >>

C6_Witness ==
    /\ Returned("Delete")
    /\ StopCalls # {} /\ stopErr = StopErr
    /\ got.rec.status # remote[d.id]
    /\ diags = << [severity |-> "Warning", summary |-> StopErr] >>

\* C7: when Create's wait fails, the diagnostics Create returns start with the
\* wait's failure; a failed Stop adds its failure after it and a successful Stop
\* adds nothing.
C7_StopFailureAppended ==
    CreateWaitFailed =>
        /\ Len(diags) >= 1
        /\ diags[1] = [severity |-> "Error", summary |-> err]
        /\ (StopCalls # {} /\ stopErr # NilErr) =>
              diags = << [severity |-> "Error", summary |-> err],
                         [severity |-> "Error", summary |-> stopErr] >>
        /\ (StopCalls = {} \/ stopErr = NilErr) =>
              diags = << [severity |-> "Error", summary |-> err] >>

C7_Witness ==
    /\ CreateWaitFailed
    /\ StopCalls # {} /\ stopErr = StopErr
    /\ Len(diags) = 2

\* The nested block the discriminator names is declared.
MatchingBlock ==
    CASE revision.revision_type = "S3" -> revision.s3_location
      [] revision.revision_type = "GitHub" -> revision.github_location
      [] revision.revision_type = "AppSpecContent" -> revision.appspec_content

\* C8: for each revision_type, with the matching nested block declared, the
\* request is built, its RevisionType is the discriminator, the matching variant
\* field is filled from that block and the other two are absent, whichever of
\* the other blocks are declared.
C8_ResolverMatchesDiscriminator ==
    (op = "Resolve" /\ Len(MatchingBlock) = 1) =>
        /\ exit = "returned"
        /\ Len(input.Revision) = 1
        /\ input.Revision[1].RevisionType = revision.revision_type
        /\ revision.revision_type = "S3" =>
              /\ input.Revision[1].S3Location =
                    << [ Bucket     |-> revision.s3_location[1].bucket.val,
                         Key        |-> revision.s3_location[1].key.val,
                         BundleType |-> revision.s3_location[1].bundle_type.val ] >>
              /\ input.Revision[1].GitHubLocation = << >>
              /\ input.Revision[1].AppSpecContent = << >>
        /\ revision.revision_type = "GitHub" =>
              /\ input.Revision[1].GitHubLocation =
                    << [ Repository |-> revision.github_location[1].repository.val,
                         CommitId   |-> revision.github_location[1].commit_id.val ] >>
              /\ input.Revision[1].S3Location = << >>
              /\ input.Revision[1].AppSpecContent = << >>
        /\ revision.revision_type = "AppSpecContent" =>
              /\ Len(input.Revision[1].AppSpecContent) = 1
              /\ input.Revision[1].AppSpecContent[1].Content =
                    revision.appspec_content[1].content.val
              /\ input.Revision[1].S3Location = << >>
              /\ input.Revision[1].GitHubLocation = << >>

\* C9: for inline content, a sha256 that is unset or the empty string gives the
\* request the lowercase hex SHA-256 digest of the content; a non-empty sha256 is
\* carried verbatim.
C9_InlineContentHash ==
    (/\ op = "Resolve"
     /\ revision.revision_type = "AppSpecContent"
     /\ Len(revision.appspec_content) = 1) =>
        /\ exit = "returned"
        /\ Len(input.Revision) = 1
        /\ Len(input.Revision[1].AppSpecContent) = 1
        /\ LET block == revision.appspec_content[1]
               sent == input.Revision[1].AppSpecContent[1].Sha256
           IN  IF block.sha256 \in {NilValue, Str("")}
               THEN sent = Sha256Hex(block.content.val)
               ELSE sent = block.sha256.val

\* C10: a Read that follows a Read, against a remote that did not change and
\* with the same answers from FetchStatus and the state write, leaves identity
\* and deployment_status as the first Read left them; a Read makes one
\* FetchStatus call, for the stored identity, and no other call.
C10_ReadIdempotent ==
    [][ (/\ Returned("Read")
         /\ op' = "Read" /\ pc' = "idle"
         /\ remote' = remote
         /\ got' = got /\ setOK' = setOK) =>
            /\ d' = d
            /\ calls' = << FetchCall(d.id) >> ]_vars

C10_Witness ==
    /\ Returned("Read")
    /\ reads = 2
    /\ got = Success(Record(d.id, "InProgress"))
    /\ setOK
    /\ d.deployment_status = "InProgress"
    /\ calls = << FetchCall(d.id) >>

\* A step of the Read handler, or one that leaves a returned Read as it is.
ReadStep == pc = "idle" /\ pc' = "idle" /\ op' = "Read" /\ remote' = remote

\* C11: Read makes one FetchStatus call, for the stored identity; when that call
\* fails Read reports failure and leaves deployment_status and the identity as
\* they were; when it succeeds the identity stays and deployment_status becomes
\* the fetched status, the remote's status of that identity (where the write of
\* the field into the state succeeds).
C11_ReadFetchesByStoredIdentity ==
    [][ ReadStep =>
          /\ calls' = << FetchCall(d.id) >>
          /\ d'.id = d.id
          /\ got'.err # NilErr => (HasError(diags') /\ d' = d)
          /\ (got'.err = NilErr /\ setOK') =>
                /\ got'.rec = Record(d.id, remote[d.id])
                /\ d'.deployment_status = got'.rec.status
                /\ ~HasError(diags') ]_vars

C11_Witness ==
    /\ Returned("Read")
    /\ got = Failure(FetchErr)
    /\ HasError(diags)
    /\ d.deployment_status = "Succeeded"
    /\ remote[d.id] = "Failed"

\* C12: whatever status the remote returns, one of Created, InProgress,
\* Succeeded, Failed, Stopped or any other value, a Read whose FetchStatus
\* succeeded reports success, and the value it wrote into deployment_status is
\* that status as a plain string.
C12_AnyStatusIsPersisted ==
    (Returned("Read") /\ got.err = NilErr) =>
        /\ ~HasError(diags)
        /\ got.rec.status \in Statuses
        /\ setOK => d.deployment_status = got.rec.status

C12_Witness ==
    /\ Returned("Read")
    /\ got = Success(Record(d.id, "Baking"))
    /\ diags = << >>
    /\ d.deployment_status = "Baking"

\* A step of the Update handler that changes something.
UpdateStep == pc = "idle" /\ op' = "Update" /\ (op # "Update" \/ d' # d)

\* C13: Update makes no Submit, FetchStatus or Stop call, leaves the remote, the
\* identity and deployment_status as they were and returns success; the value
\* of auto_rollback_enabled it leaves in the state is the flag a later Stop of
\* Delete carries.
C13_UpdateHasNoEffect ==
    [][ /\ UpdateStep =>
              /\ calls' = << >>
              /\ diags' = << >>
              /\ pc' = "idle" /\ exit' = "returned"
              /\ remote' = remote
              /\ d'.id = d.id
              /\ d'.deployment_status = d.deployment_status
        /\ (pc = "stop" /\ pc' = "idle") =>
              calls'[Len(calls')] = StopCall(d.id, d.auto_rollback_enabled) ]_vars

C13_Witness ==
    /\ Returned("Update")
    /\ ~d.auto_rollback_enabled
    /\ calls = << >> /\ diags = << >>
    /\ d.deployment_status = "InProgress"
    /\ remote[d.id] = "Failed"

\* C14: the identity Create persists is the id its Submit returned, and every
\* step of Read, Update and Delete on a resource with an identity leaves that
\* identity, makes no Submit call and names no other deployment in its calls.
C14_IdentityIsStable ==
    /\ []((op = "Create" /\ d.id # "") =>
              (d.id = deployment /\ calls[1] = SubmitCall))
    /\ [][ (d.id # "" /\ op' \in {"Read", "Update", "Delete"}) =>
              /\ d'.id = d.id
              /\ \A i \in 1..Len(calls') :
                    calls'[i].op # "Submit" /\ calls'[i].id = d.id ]_vars

C14_Witness ==
    /\ Returned("Delete")
    /\ d.id = DeploymentId(2)
    /\ remote[DeploymentId(1)] = Unfollowed
    /\ calls = << FetchCall(DeploymentId(2)), StopCall(DeploymentId(2), TRUE) >>

\* C15: an identity comes to be persisted only by the step of Create that
\* follows a wait which ended without an error on a record of the submitted
\* deployment with status Succeeded; the identity is the id Submit returned.  A
\* wait that ended with an error (Failed or Stopped seen, the budget used up,
\* a cancellation, a failed poll) is never followed by a persisted identity.
C15_IdentityOnlyAfterSucceededWait ==
    /\ [][ (d'.id # d.id /\ d'.id # "") =>
              /\ d.id = ""
              /\ op = "Create" /\ pc = "waited"
              /\ calls[1] = SubmitCall
              /\ err = NilErr
              /\ output = Record(deployment, "Succeeded")
              /\ d'.id = deployment ]_vars
    /\ []((op = "Create" /\ err # NilErr) => d.id = "")

C15_Witness ==
    /\ Returned("Create")
    /\ d.id = deployment /\ d.id # ""
    /\ output = Record(deployment, "Succeeded")
    /\ polls = 2
    /\ ~HasError(diags)

\* A poll of Create's wait starts: one more GetDeployment call of the wait.
PollStarts == pc = "wait" /\ polls' = polls + 1

\* C16: the waiter sleeps at most 15 seconds between two polls and its budget
\* is the configured create timeout less 15 seconds, so every poll of the wait
\* starts before the configured create timeout has elapsed since the wait
\* began, by at least the 15 seconds; with a timeout of 15 seconds or less the
\* budget is not positive and no poll starts at all.  After a poll the waiter
\* sleeps at most 15 seconds.
C16_NoPollPastCreateTimeout ==
    [][ /\ PollStarts =>
              /\ clock <= timeout
              /\ clock < timeout - 15
              /\ timeout > 15
        /\ (pc = "wait" /\ pc' = "wait" /\ clock' # clock) =>
              \E p \in PollTimes : clock' - (clock + p) \in 1..15 ]_vars

C16_Witness ==
    /\ op = "Create" /\ pc = "wait"
    /\ timeout = 30
    /\ polls = 2
    /\ clock >= 15

\* The wait ended because its budget was used up or ctx was cancelled.
WaitCutShort == op = "Create" /\ pc # "wait" /\ err \in {WaitTimeoutErr, WaitCanceledErr}

\* C17: every Create that has submitted returns in the end.  Once the budget of
\* the wait is used up the wait polls no more; after the wait was cut short by
\* the deadline or a cancellation the only FetchStatus calls Create has made
\* are the polls made before, it makes at most one Stop call, and it returns
\* failure with no identity persisted.
C17_CreateTerminates ==
    /\ (op = "Create" /\ exit = "running") ~> Returned("Create")
    /\ [][ (pc = "wait" /\ clock >= timeout - 15) => calls' = calls ]_vars
    /\ [](WaitCutShort =>
              /\ Cardinality(FetchCalls) = polls
              /\ Cardinality(StopCalls) <= 1
              /\ Returned("Create") => (HasError(diags) /\ d.id = ""))

C17_Witness ==
    /\ Returned("Create")
    /\ err = WaitTimeoutErr
    /\ timeout = 30
    /\ polls = 2
    /\ Cardinality(FetchCalls) = 2
    /\ Cardinality(StopCalls) = 1
    /\ stopErr = StopErr

\* C18: when the process is killed while Create waits, the remote deployment
\* goes on and its id is in the state, so that a later Read fetches the status
\* it has reached.
C18_KilledWaitLeavesIdentity ==
    (op = "Create" /\ exit = "killed") =>
        /\ remote[deployment] \in Statuses
        /\ d.id = deployment

\* C19: a Create whose wait ended because a poll found the deployment Failed or
\* Stopped makes no Stop call; a Stop call of Create means the wait had last
\* seen a status other than Succeeded, Failed, Stopped, or had seen none.
C19_NoStopAfterTerminalStatus ==
    (CreateWaitFailed /\ err = WaitFailureStateErr) => StopCalls = {}

\* C20: as long as no deployment that had ended has changed status since the
\* resource was created, a Delete whose FetchStatus succeeds finds the
\* deployment of the persisted identity ended (Succeeded, what Create's wait
\* saw) and makes no Stop call; Delete reaches its Stop only after a
\* deployment that had ended changed status.
C20_DeleteFindsEndedDeployment ==
    /\ (Returned("Delete") /\ got.err = NilErr /\ ~reopened) =>
          /\ got.rec.status = "Succeeded"
          /\ got.rec.status \in Terminal
          /\ StopCalls = {}
    /\ (op = "Delete" /\ (pc = "stop" \/ StopCalls # {})) => reopened

C20_Witness ==
    /\ Returned("Delete")
    /\ ~reopened
    /\ got = Success(Record(d.id, "Succeeded"))
    /\ calls = << FetchCall(d.id) >>
    /\ diags = << >>

\* C21: a Read whose FetchStatus succeeded and whose write of deployment_status
\* into the state failed returns an error diagnostic, not success.
C21_FailedStateWriteFailsRead ==
    (Returned("Read") /\ got.err = NilErr /\ ~setOK) => HasError(diags)

=============================================================================
